---- MODULE Spec2Model ----
(***************************************************************************)
(* The command/response bridge of the gateway: HTTP handlers               *)
(* (src/server/endpoints.rs) enqueue Commands on one unbounded crossbeam   *)
(* channel consumed by the backend Worker thread (src/lib.rs), and two     *)
(* handlers read results back from two unbounded crossbeam channels.       *)
(***************************************************************************)
EXTENDS Integers, Sequences, FiniteSets, TLC

\* ------------------------------------------------------------------ bounds
NReq == 3          \* HTTP requests observed
NThreads == 2      \* actix-web runtime worker threads
MaxNodes == 3      \* longest discovery list enumerated exhaustively
MaxNodeId == 3     \* node identifiers 1..MaxNodeId
NodeId == 1        \* this gateway's node identity (options.id)

\* --------------------------------------------------------- program constants
HttpOk == 200
HttpNoContent == 204
HttpInternalServerError == 500
PortOffset == 8000     \* let port = port + 8000
U8Max == 255           \* options.id: u8
U16Max == 65535        \* port: u16

Reqs == 1..NReq
Threads == 1..NThreads
NodeIds == 1..MaxNodeId
Targets == {2, 3}   \* payload.id / payload.server_id values tried
NodeType == {"Client", "Drone", "Server"}
SimpleKinds == {"register", "send", "clients"}
Kinds == SimpleKinds \cup {"flood", "messages"}

VARIABLES
    clientHolds,  \* a Client struct keeps its own handle of every endpoint
    worker,       \* "running" | "gone": the backend thread and its handles
    cmdQ,         \* Command Channel contents
    floodQ,       \* discovery Result Channel contents
    unreadQ,      \* unread-messages Result Channel contents
    pc,           \* per request: position of its handler
    kind,         \* per request: endpoint
    thr,          \* per request: runtime thread serving it
    status,       \* per request: HTTP status of the response (0: none yet)
    body,         \* per request: response body
    elapsed,      \* per request: the 3 s tick of its select has fired
    got,          \* per request: results received from a Result Channel
    via,          \* per request: how the handler came to its response
    enq,          \* per request: commands it enqueued
    proc,         \* per request: commands of it the Worker has processed
    run           \* Client::run / start_server: position, threads spawned, port

vars == <<clientHolds, worker, cmdQ, floodQ, unreadQ, pc, kind, thr, status,
          body, elapsed, got, via, enq, proc, run>>

chans == <<cmdQ, floodQ, unreadQ>>
ends == <<clientHolds, worker, run>>

\* ------------------------------------------------------------ response values
NoBody == [form |-> "none", text |-> "", list |-> <<>>]
Text(s) == [form |-> "text", text |-> s, list |-> <<>>]
Json(l) == [form |-> "list", text |-> "", list |-> l]
Resp(s, b) == [status |-> s, body |-> b]

\* ------------------------------------------------------------ channel ends
\* crossbeam: send fails only when every Receiver handle is dropped, recv
\* fails only when the queue is empty and every Sender handle is dropped.
\* Client keeps command_receive, flood_send and unread_msg_send itself and
\* hands clones to the Worker.
CmdConnected == clientHolds \/ worker = "running"
FloodConnected == clientHolds \/ worker = "running"
UnreadConnected == clientHolds \/ worker = "running"

Cmd(op, h, m) == [op |-> op, req |-> h, msg |-> m]
NoMsg == [source |-> 0, destination |-> 0, content |-> "none"]

\* Position of the startup code: `at`, the Worker threads Client::run has
\* spawned, the base port start_server was given and the port it bound (0:
\* none).
Run(at, threads, base, port) ==
    [at |-> at, threads |-> threads, base |-> base, port |-> port]

\* The gateway is serving: through Client::run (one Worker thread spawned,
\* base port options.id) or with start_server called by another caller.
Serving ==
    IF clientHolds
    THEN Run("serving", 1, NodeId, NodeId + PortOffset)
    ELSE Run("serving", 0, NodeId, NodeId + PortOffset)

Quiet ==
    /\ cmdQ = <<>>
    /\ floodQ = <<>>
    /\ unreadQ = <<>>
    /\ pc = [h \in Reqs |-> "idle"]
    /\ kind = [h \in Reqs |-> "none"]
    /\ thr = [h \in Reqs |-> 0]
    /\ status = [h \in Reqs |-> 0]
    /\ body = [h \in Reqs |-> NoBody]
    /\ elapsed = [h \in Reqs |-> FALSE]
    /\ got = [h \in Reqs |-> <<>>]
    /\ via = [h \in Reqs |-> "none"]
    /\ enq = [h \in Reqs |-> 0]
    /\ proc = [h \in Reqs |-> 0]

Init ==
    /\ clientHolds \in BOOLEAN
    /\ worker = "running"
    /\ run = Serving
    /\ Quiet

\* ------------------------------------------------------------ front end
\* A handler has no .await point: once polled it occupies its runtime thread
\* until it returns (std::thread::sleep, recv and select! block the thread).
Busy(t) == \E g \in Reqs : thr[g] = t /\ pc[g] \in {"sleep", "recv", "select"}

\* Runtime thread t can take up the request in slot h and poll its handler.
\* Slots are used in order, and the threads being interchangeable, a request
\* goes to the lowest-numbered thread that is not blocked in a handler.
Poll(h, t) ==
    /\ pc[h] = "idle"
    /\ \A g \in Reqs : g < h => pc[g] # "idle"
    /\ ~Busy(t)
    /\ \A u \in Threads : u < t => Busy(u)

\* The handler of h returns response r, having come to it by way w, and
\* leaves its thread.
Return(h, r, w) ==
    /\ pc' = [pc EXCEPT ![h] = "done"]
    /\ thr' = [thr EXCEPT ![h] = 0]
    /\ status' = [status EXCEPT ![h] = r.status]
    /\ body' = [body EXCEPT ![h] = r.body]
    /\ via' = [via EXCEPT ![h] = w]

SendOkLost(c) ==
    /\ CmdConnected
    /\ cmdQ' = cmdQ
    /\ enq' = [enq EXCEPT ![c.req] = @ + 1]

SendOkTwice(c) ==
    /\ CmdConnected
    /\ cmdQ' = Append(Append(cmdQ, c), c)
    /\ enq' = [enq EXCEPT ![c.req] = @ + 2]

SendOkFront(c) ==
    /\ CmdConnected
    /\ cmdQ' = <<c>> \o cmdQ
    /\ enq' = [enq EXCEPT ![c.req] = @ + 1]

\* command_send_channel.send(c)
SendOk(c) ==
    /\ CmdConnected
    /\ cmdQ' = Append(cmdQ, c)
    /\ enq' = [enq EXCEPT ![c.req] = @ + 1]

SendErr ==
    /\ ~CmdConnected
    /\ UNCHANGED <<cmdQ, enq>>

\* ------------------------------------------------------------ /flood
\* for node in nodes.0 { if let NodeType::Server = node.1 { ids.push(node.0) } }
RECURSIVE FilterLoop(_, _)
FilterLoop(nodes, ids) ==
    IF nodes = <<>> THEN ids
    ELSE FilterLoop(Tail(nodes),
                    IF Head(nodes)[2] = "Server"
                    THEN Append(ids, Head(nodes)[1])
                    ELSE ids)

FilterNotClient(nodes) ==
    LET keep == SelectSeq(nodes, LAMBDA n : n[2] # "Client")
    IN  [i \in 1..Len(keep) |-> keep[i][1]]

FilterServers(nodes) == FilterLoop(nodes, <<>>)

FloodInitFailed ==
    Resp(HttpInternalServerError, Text("Failed to send request to the backend to flood"))

FloodFetchFailedAsOk == Resp(HttpOk, Json(<<>>))

FloodFetchFailed ==
    Resp(HttpInternalServerError, Text("Failed to send request to get nodes from the backend"))

\* match nodes { Ok(nodes) => ..., Err(_) => ... }
FloodOk(r) == Resp(HttpOk, Json(FilterServers(r.nodes)))

FloodRecvFailed ==
    Resp(HttpInternalServerError, Text("Failed to receive answer from the backend"))

RecvItemLast(q) == q[Len(q)]

\* The item a receive takes from a non-empty channel.
RecvItem(q) == Head(q)
RecvRestKeep(q) == q
RecvRestDrain(q) == <<>>
RecvRest(q) == Tail(q)

FloodStart(h, t) ==
    /\ Poll(h, t)
    /\ kind' = [kind EXCEPT ![h] = "flood"]
    /\ \/ /\ SendOk(Cmd("InitializeFlood", h, NoMsg))
          /\ pc' = [pc EXCEPT ![h] = "sleep"]
          /\ thr' = [thr EXCEPT ![h] = t]
          /\ UNCHANGED <<status, body, via>>
       \/ /\ SendErr
          /\ Return(h, FloodInitFailed, "sendfail")
    /\ UNCHANGED <<ends, floodQ, unreadQ, elapsed, got, proc>>

\* The 2 s sleep is over; the handler asks for the discovered nodes.
FloodWake(h) ==
    /\ pc[h] = "sleep"
    /\ \/ /\ SendOk(Cmd("GetEdgeNodesFromFlood", h, NoMsg))
          /\ pc' = [pc EXCEPT ![h] = "recv"]
          /\ UNCHANGED <<status, body, via, thr>>
       \/ /\ SendErr
          /\ Return(h, FloodFetchFailed, "sendfail")
    /\ UNCHANGED <<ends, floodQ, unreadQ, kind, elapsed, got, proc>>

\* flood_res_channel.recv(): blocks while the channel is empty and connected.
FloodRecv(h) ==
    /\ pc[h] = "recv"
    /\ \/ /\ floodQ # <<>>
          /\ floodQ' = RecvRest(floodQ)
          /\ got' = [got EXCEPT ![h] = Append(@, RecvItem(floodQ))]
          /\ Return(h, FloodOk(RecvItem(floodQ)), "result")
       \/ /\ floodQ = <<>>
          /\ ~FloodConnected
          /\ Return(h, FloodRecvFailed, "closed")
          /\ UNCHANGED <<floodQ, got>>
    /\ UNCHANGED <<ends, cmdQ, unreadQ, kind, elapsed, enq, proc>>

\* ------------------------------------------------------------ /register, /send, /clients
Content(k) ==
    CASE k = "register" -> "Register"
      [] k = "send" -> "SendMessage"
      [] k = "clients" -> "ClientList"

MsgFromTarget(k, dst) == [source |-> dst, destination |-> dst, content |-> Content(k)]

\* Message { source, destination, session_id: 0, content }
Msg(k, dst) == [source |-> NodeId, destination |-> dst, content |-> Content(k)]

\* match send(..) { Ok(()) => HttpResponse::Ok(), Err(_) => InternalServerError() }
ForwardOk == Resp(HttpOk, NoBody)
ForwardFailed == Resp(HttpInternalServerError, NoBody)

Forward(h, k, t) ==
    /\ Poll(h, t)
    /\ kind' = [kind EXCEPT ![h] = k]
    /\ \/ \E dst \in Targets :
            /\ SendOk(Cmd("SendMessage", h, Msg(k, dst)))
            /\ Return(h, ForwardOk, "sent")
       \/ /\ SendErr
          /\ Return(h, ForwardFailed, "sendfail")
    /\ UNCHANGED <<ends, floodQ, unreadQ, elapsed, got, proc>>

\* ------------------------------------------------------------ /messages
NoNewMessages == "No new messages"

MessagesSendFailedAsNoContent == Resp(HttpNoContent, Text(NoNewMessages))

MessagesSendFailed ==
    Resp(HttpInternalServerError, Text("Failed to send request to the backend"))

UnreadOkInverted(r) ==
    IF r.msgs # <<>>
    THEN Resp(HttpNoContent, Text(NoNewMessages))
    ELSE Resp(HttpOk, Json(r.msgs))

\* recv(unread_msg_channel) -> msg => match msg { Ok(msgs) => ..., _ => ... }
UnreadOk(r) ==
    IF r.msgs = <<>>
    THEN Resp(HttpNoContent, Text(NoNewMessages))
    ELSE Resp(HttpOk, Json(r.msgs))

UnreadClosed == Resp(HttpOk, Text(NoNewMessages))

UnreadTimeoutAsError == Resp(HttpInternalServerError, Text(NoNewMessages))

\* recv(timeout_tick) -> _ => ...
UnreadTimeout == Resp(HttpNoContent, Text(NoNewMessages))

MessagesStart(h, t) ==
    /\ Poll(h, t)
    /\ kind' = [kind EXCEPT ![h] = "messages"]
    /\ \/ /\ SendOk(Cmd("GetUnreadMessagesFromServer", h, NoMsg))
          /\ pc' = [pc EXCEPT ![h] = "select"]
          /\ thr' = [thr EXCEPT ![h] = t]
          /\ UNCHANGED <<status, body, via>>
       \/ /\ SendErr
          /\ Return(h, MessagesSendFailed, "sendfail")
    /\ UNCHANGED <<ends, floodQ, unreadQ, elapsed, got, proc>>

TickNever(h) == FALSE /\ UNCHANGED vars

\* tick(Duration::from_secs(3)) becomes ready.
Tick(h) ==
    /\ pc[h] = "select"
    /\ ~elapsed[h]
    /\ elapsed' = [elapsed EXCEPT ![h] = TRUE]
    /\ UNCHANGED <<ends, chans, pc, kind, thr, status, body, got, via, enq, proc>>

\* select!: one of the ready operations is taken.
MessagesSelect(h) ==
    /\ pc[h] = "select"
    /\ \/ /\ unreadQ # <<>>
          /\ unreadQ' = RecvRest(unreadQ)
          /\ got' = [got EXCEPT ![h] = Append(@, RecvItem(unreadQ))]
          /\ Return(h, UnreadOk(RecvItem(unreadQ)), "result")
       \/ /\ unreadQ = <<>>
          /\ ~UnreadConnected
          /\ Return(h, UnreadClosed, "closed")
          /\ UNCHANGED <<unreadQ, got>>
       \/ /\ elapsed[h]
          /\ Return(h, UnreadTimeout, "timeout")
          /\ UNCHANGED <<unreadQ, got>>
    /\ elapsed' = [elapsed EXCEPT ![h] = FALSE]
    /\ UNCHANGED <<ends, cmdQ, floodQ, kind, enq, proc>>

\* ------------------------------------------------------------ Worker
\* Discovery views and unread-message batches the Worker may report.
Views == { <<>>, << <<1, "Server">>, <<2, "Client">>, <<3, "Server">> >> }
Batches == { <<>>, <<1>> }

\* Every list of at most MaxNodes (node-identifier, node-kind) pairs.
RECURSIVE ListsUpTo(_)
ListsUpTo(n) ==
    IF n = 0 THEN { <<>> }
    ELSE LET shorter == ListsUpTo(n - 1)
         IN  shorter \cup { Append(l, <<i, k>>) :
                               l \in { x \in shorter : Len(x) = n - 1 },
                               i \in NodeIds, k \in NodeType }
AllViews == ListsUpTo(MaxNodes)

\* The Worker takes the next command and processes it to completion.
WorkerProcess(V) ==
    /\ worker = "running"
    /\ cmdQ # <<>>
    /\ LET c == Head(cmdQ) IN
       /\ cmdQ' = Tail(cmdQ)
       /\ proc' = [proc EXCEPT ![c.req] = @ + 1]
       /\ CASE c.op = "GetEdgeNodesFromFlood" ->
                 /\ \E v \in V : floodQ' = Append(floodQ, [nodes |-> v, req |-> c.req])
                 /\ UNCHANGED unreadQ
            [] c.op = "GetUnreadMessagesFromServer" ->
                 /\ \E m \in Batches :
                       unreadQ' = Append(unreadQ, [msgs |-> m, req |-> c.req])
                 /\ UNCHANGED floodQ
            [] OTHER -> UNCHANGED <<floodQ, unreadQ>>
    /\ UNCHANGED <<ends, pc, kind, thr, status, body, elapsed, got, via, enq>>

\* client_backend.run() returns or panics: the thread's closure ends and the
\* Service, with its channel handles, is dropped. Nothing respawns it.
WorkerExit ==
    /\ worker = "running"
    /\ worker' = "gone"
    /\ UNCHANGED <<clientHolds, run, chans, pc, kind, thr, status, body, elapsed,
                   got, via, enq, proc>>

\* ------------------------------------------------------------ startup
reqs == <<pc, kind, thr, status, body, elapsed, got, via, enq, proc>>

\* Service::new(...).map_err(..)?  : the Worker is constructed, or run
\* returns the error at once.
RunConstruct ==
    /\ run.at = "called"
    /\ \/ run' = [run EXCEPT !.at = "constructed"]
       \/ run' = [run EXCEPT !.at = "ctor_failed"]
    /\ UNCHANGED <<clientHolds, worker, chans, reqs>>

RunSpawnTwice ==
    /\ run.at = "constructed"
    /\ run' = [run EXCEPT !.at = "spawned", !.threads = @ + 2]
    /\ worker' = "running"
    /\ UNCHANGED <<clientHolds, chans, reqs>>

\* thread::spawn(move || { client_backend.run(); Ok(()) }); not joined.
RunSpawn ==
    /\ run.at = "constructed"
    /\ run' = [run EXCEPT !.at = "spawned", !.threads = @ + 1]
    /\ worker' = "running"
    /\ UNCHANGED <<clientHolds, chans, reqs>>

\* let port = port + 8000 in u16: the sum when it fits; otherwise the build
\* decides, a panic (overflow checks on) or the sum wrapped (off).
PortSums(base) ==
    IF base + PortOffset <= U16Max
    THEN { base + PortOffset }
    ELSE { (base + PortOffset) % (U16Max + 1), -1 }

\* start_server: the port is computed and bound, and the server runs;
\* a bind failure is returned, through block_on(server)?, by run.
StartServer ==
    /\ run.at \in {"spawned", "direct"}
    /\ \E p \in PortSums(run.base) :
          \/ /\ p >= 0
             /\ run' = [run EXCEPT !.at = "serving", !.port = p]
          \/ /\ p >= 0
             /\ run' = [run EXCEPT !.at = "bind_failed"]
          \/ /\ p < 0
             /\ run' = [run EXCEPT !.at = "panicked"]
    /\ UNCHANGED <<clientHolds, worker, chans, reqs>>

\* Client::run is called with any u8 node identity, or start_server is
\* called directly with any u16 base port.
StartInit ==
    /\ Quiet
    /\ clientHolds \in BOOLEAN
    /\ IF clientHolds
       THEN /\ worker = "unspawned"
            /\ \E id \in 0..U8Max : run = Run("called", 0, id, 0)
       ELSE /\ worker = "running"
            /\ \E base \in 0..U16Max : run = Run("direct", 0, base, 0)

StartNext ==
    \/ RunConstruct
    \/ RunSpawn
    \/ StartServer
    \/ WorkerExit

StartSpec == StartInit /\ [][StartNext]_vars

\* ------------------------------------------------------------ specification
Next ==
    \/ \E h \in Reqs, t \in Threads : FloodStart(h, t)
    \/ \E h \in Reqs : FloodWake(h)
    \/ \E h \in Reqs : FloodRecv(h)
    \/ \E h \in Reqs, k \in SimpleKinds, t \in Threads : Forward(h, k, t)
    \/ \E h \in Reqs, t \in Threads : MessagesStart(h, t)
    \/ \E h \in Reqs : Tick(h)
    \/ \E h \in Reqs : MessagesSelect(h)
    \/ WorkerProcess(Views)
    \/ WorkerExit

Spec == Init /\ [][Next]_vars

\* One /flood request against a Worker that may report any discovery list.
FloodNext ==
    \/ FloodStart(1, 1)
    \/ FloodWake(1)
    \/ FloodRecv(1)
    \/ WorkerProcess(AllViews)
    \/ WorkerExit

FloodSpec == Init /\ [][FloodNext]_vars

\* /messages requests only. Time passes, so a pending tick fires, and a
\* handler's thread is scheduled, so a ready select completes; nothing
\* obliges the Worker to run.
MessagesNext ==
    \/ \E h \in Reqs, t \in Threads : MessagesStart(h, t)
    \/ \E h \in Reqs : Tick(h)
    \/ \E h \in Reqs : MessagesSelect(h)
    \/ WorkerProcess(Views)
    \/ WorkerExit

MessagesFairSpec ==
    /\ Init
    /\ [][MessagesNext]_vars
    /\ \A h \in Reqs : WF_vars(Tick(h)) /\ WF_vars(MessagesSelect(h))

\* /messages requests against a Worker whose thread is scheduled: while it
\* runs and a command is queued, its loop takes the command. Nothing keeps
\* the loop from ending.
WorkerFairSpec ==
    /\ Init
    /\ [][MessagesNext]_vars
    /\ \A h \in Reqs : WF_vars(Tick(h)) /\ WF_vars(MessagesSelect(h))
    /\ WF_vars(WorkerProcess(Views))

\* Concurrent /flood requests against a Worker that stays alive and is
\* scheduled; a handler's sleep ends and its thread runs it when it can go on.
FloodLiveNext ==
    \/ \E h \in Reqs, t \in Threads : FloodStart(h, t)
    \/ \E h \in Reqs : FloodWake(h)
    \/ \E h \in Reqs : FloodRecv(h)
    \/ WorkerProcess(Views)

FloodLiveSpec ==
    /\ Init
    /\ [][FloodLiveNext]_vars
    /\ \A h \in Reqs : WF_vars(FloodWake(h)) /\ WF_vars(FloodRecv(h))
    /\ WF_vars(WorkerProcess(Views))

\* ------------------------------------------------------------ properties
Done(h) == pc[h] = "done"

\* A step in which the handler of h performs a Command Dispatch: its first
\* send when it is polled, or the second send of /flood after the sleep.
Dispatches(h) == pc[h] \in {"idle", "sleep"} /\ pc'[h] # pc[h]

\* C1: once the Worker is gone while the gateway serves through Client::run,
\* every later Command Dispatch fails: nothing more is enqueued, the handler
\* returns 500, and the Worker stays gone.
C1_DispatchFailsAfterWorkerGone ==
    [][(clientHolds /\ worker = "gone") =>
          /\ worker' = "gone"
          /\ \A h \in Reqs :
                Dispatches(h) =>
                    /\ Done(h)'
                    /\ status'[h] = HttpInternalServerError
                    /\ cmdQ' = cmdQ]_vars

\* C2: with the Command Channel's consuming side closed before a request,
\* the handler returns 500 in its first step, enqueues nothing, reads no
\* Result Channel, and the Worker never processes a command of the request.
C2_ClosedChannelGives500 ==
    /\ [](\A h \in Reqs : proc[h] <= enq[h])
    /\ [][~CmdConnected =>
            \A h \in Reqs :
                (pc[h] = "idle" /\ pc'[h] # "idle") =>
                    /\ Done(h)'
                    /\ status'[h] = HttpInternalServerError
                    /\ enq'[h] = 0
                    /\ got'[h] = <<>>
                    /\ chans' = chans]_vars

C2_Witness ==
    /\ ~CmdConnected
    /\ \A k \in {"flood", "messages", "send"} :
          \E h \in Reqs :
              /\ kind[h] = k
              /\ Done(h)
              /\ status[h] = HttpInternalServerError
              /\ enq[h] = 0
              /\ proc[h] = 0

\* The identifiers of the entries of kind Server, in the order of the list.
ServerSubsequence(nodes) ==
    LET servers == SelectSeq(nodes, LAMBDA n : n[2] = "Server")
    IN  [i \in 1..Len(servers) |-> servers[i][1]]

\* C3: the 200 body of /flood is exactly the subsequence of the identifiers
\* of kind Server of the DiscoveryResult received, order and duplicates kept.
C3_FloodReturnsServerIds ==
    \A h \in Reqs :
        (kind[h] = "flood" /\ via[h] = "result") =>
            /\ status[h] = HttpOk
            /\ body[h] = Json(ServerSubsequence(got[h][1].nodes))

C3_Witness ==
    \E h \in Reqs :
        /\ via[h] = "result"
        /\ got[h][1].nodes = << <<1, "Server">>, <<2, "Client">>, <<3, "Server">> >>
        /\ body[h].list = <<1, 3>>

\* The Worker has answered the fetch-unread-messages command of h, which is
\* still waiting with its timeout not elapsed, with an empty batch.
AnsweredEmptyInTime(h) ==
    /\ pc[h] = "select"
    /\ ~elapsed[h]
    /\ \E i \in DOMAIN unreadQ : unreadQ[i].req = h /\ unreadQ[i].msgs = <<>>

\* The same, with a batch of at least one message.
AnsweredNonEmptyInTime(h) ==
    /\ pc[h] = "select"
    /\ ~elapsed[h]
    /\ \E i \in DOMAIN unreadQ : unreadQ[i].req = h /\ unreadQ[i].msgs # <<>>

\* C4 as stated: a /messages request whose own command the Worker answered
\* with an empty collection returns 204, and so does one that times out,
\* with the same body.
C4_EmptyAnswerGives204 ==
    [][\A h \in Reqs :
          /\ (AnsweredEmptyInTime(h) /\ Done(h)') =>
                (status'[h] = HttpNoContent /\ body'[h] = Text(NoNewMessages))
          /\ (pc[h] = "select" /\ via'[h] = "timeout") =>
                (status'[h] = HttpNoContent /\ body'[h] = Text(NoNewMessages))]_vars

\* C4 (amended): a /messages request returns 204 "No new messages" when the
\* result its select receives from the shared channel is empty, whichever
\* request's command that result answers, and also when its select takes
\* the timeout branch.
C4_EmptyReceivedGives204 ==
    \A h \in Reqs :
        (kind[h] = "messages" /\ Done(h)) =>
            /\ (via[h] = "result" /\ got[h][1].msgs = <<>>) =>
                  (status[h] = HttpNoContent /\ body[h] = Text(NoNewMessages))
            /\ via[h] = "timeout" =>
                  (status[h] = HttpNoContent /\ body[h] = Text(NoNewMessages) /\ got[h] = <<>>)

C4_Witness ==
    \E h, g \in Reqs :
        /\ via[h] = "timeout" /\ status[h] = HttpNoContent
        /\ via[g] = "result" /\ status[g] = HttpNoContent
        /\ kind[g] = "messages"
        /\ got[g][1].msgs = <<>>
        /\ got[g][1].req = h
        /\ body[g] = body[h]

\* C5 as stated: a /messages request whose own command the Worker answered
\* with at least one message before the timeout returns 200 with a
\* non-empty array.
C5_NonEmptyAnswerGives200 ==
    [][\A h \in Reqs :
          (AnsweredNonEmptyInTime(h) /\ Done(h)') =>
              (status'[h] = HttpOk /\ body'[h].list # <<>>)]_vars

\* C5 (amended): a /messages request returns 200 with exactly the messages
\* of the result its select receives whenever that result is non-empty; the
\* result received is the oldest one queued and may answer another request.
C5_NonEmptyReceivedGives200 ==
    \A h \in Reqs :
        (kind[h] = "messages" /\ via[h] = "result" /\ got[h][1].msgs # <<>>) =>
            /\ status[h] = HttpOk
            /\ body[h] = Json(got[h][1].msgs)
            /\ body[h].list # <<>>

C5_Witness ==
    \E h, g \in Reqs :
        /\ h # g
        /\ via[g] = "timeout"
        /\ kind[h] = "messages" /\ via[h] = "result"
        /\ got[h][1].req = g
        /\ status[h] = HttpOk
        /\ body[h].list # <<>>

\* C6: a /messages handler that has enqueued its command eventually returns.
C6_MessagesReturns ==
    \A h \in Reqs : (pc[h] = "select") ~> Done(h)

C6_Witness ==
    \E h, g \in Reqs :
        /\ h # g
        /\ via[h] = "timeout"
        /\ got[g] # <<>> /\ got[g][1].req = h
        /\ unreadQ = <<>>

\* C7: a /messages handler that finds the unread-messages Result Channel
\* closed returns 204.
C7_ClosedResultChannelGives204 ==
    \A h \in Reqs :
        (kind[h] = "messages" /\ via[h] = "closed") => status[h] = HttpNoContent

\* C8: with the Worker gone and no DiscoveryResult to receive, a /flood
\* handler waiting in recv observes the channel closed (and returns 500).
C8_FloodUnblocksWhenWorkerGone ==
    \A h \in Reqs :
        (pc[h] = "recv" /\ worker = "gone" /\ floodQ = <<>>) => ~FloodConnected

\* C9: a /register, /send or /clients request made while the Command
\* Channel has a consumer returns 200 and enqueues exactly one send-message
\* command, whatever the other handlers and the Worker have done.
C9_ForwardReturns200 ==
    [][\A h \in Reqs :
          (pc[h] = "idle" /\ pc'[h] # "idle" /\ kind'[h] \in SimpleKinds /\ CmdConnected) =>
              /\ Done(h)'
              /\ status'[h] = HttpOk
              /\ enq'[h] = 1
              /\ Len(cmdQ') = Len(cmdQ) + 1
              /\ cmdQ'[Len(cmdQ')].op = "SendMessage"
              /\ cmdQ'[Len(cmdQ')].req = h
              /\ SubSeq(cmdQ', 1, Len(cmdQ)) = cmdQ]_vars

C9_Witness ==
    /\ Cardinality({h \in Reqs : kind[h] \in SimpleKinds /\ status[h] = HttpOk}) >= 3
    /\ \E h, g \in Reqs :
          /\ h < g
          /\ kind[h] \in SimpleKinds /\ kind[g] \in SimpleKinds
          /\ proc[h] = 1 /\ proc[g] = 0

\* C10: a /flood handler's receive takes the oldest result of the shared
\* discovery Result Channel, whichever request's fetch produced it, so two
\* concurrent /flood requests can each receive the other's result.
C10_FloodTakesOldestResult ==
    [][\A h \in Reqs :
          (kind[h] = "flood" /\ got'[h] # got[h]) =>
              /\ floodQ # <<>>
              /\ got'[h] = <<Head(floodQ)>>
              /\ floodQ' = Tail(floodQ)]_vars

C10_Witness ==
    \E a, b \in Reqs :
        /\ a # b
        /\ kind[a] = "flood" /\ kind[b] = "flood"
        /\ via[a] = "result" /\ via[b] = "result"
        /\ got[a][1].req = b
        /\ got[b][1].req = a

\* The commands of request h waiting on the Command Channel.
Queued(h) == { i \in DOMAIN cmdQ : cmdQ[i].req = h }

\* C11: the Command Channel is FIFO without loss or duplication: a send
\* appends one command at the tail, the Worker takes exactly the head, and
\* every enqueued command is either still queued or was processed once; so
\* a /flood request's initialize-discovery command is processed before its
\* fetch-discovered-nodes command.
C11_CommandsFifo ==
    /\ [](\A h \in Reqs :
            /\ proc[h] + Cardinality(Queued(h)) = enq[h]
            /\ \A i, j \in Queued(h) :
                  (cmdQ[i].op = "InitializeFlood" /\ cmdQ[j].op = "GetEdgeNodesFromFlood")
                      => i < j
            /\ (\E i \in Queued(h) : cmdQ[i].op = "InitializeFlood") => proc[h] = 0)
    /\ [][\/ cmdQ' = cmdQ /\ proc' = proc
          \/ /\ Len(cmdQ') = Len(cmdQ) + 1
             /\ SubSeq(cmdQ', 1, Len(cmdQ)) = cmdQ
             /\ proc' = proc
          \/ /\ cmdQ # <<>>
             /\ cmdQ' = Tail(cmdQ)
             /\ proc' = [proc EXCEPT ![Head(cmdQ).req] = @ + 1]]_vars

C11_Witness ==
    \E h, g \in Reqs :
        /\ h # g
        /\ kind[h] = "flood" /\ kind[g] = "flood"
        /\ proc[h] = 2
        /\ proc[g] = 1
        /\ cmdQ # <<>>
        /\ cmdQ[1].req = g
        /\ cmdQ[1].op = "GetEdgeNodesFromFlood"

\* The handlers that hold a result produced for the fetch of request r.
Holders(r) == { h \in Reqs : got[h] # <<>> /\ got[h][1].req = r }

\* A step on Result Channel q (with next value qn): nothing, the Worker
\* appending one result at the tail, or one handler taking the head.
ChannelStep(q, qn) ==
    \/ qn = q /\ got' = got
    \/ /\ Len(qn) = Len(q) + 1
       /\ SubSeq(qn, 1, Len(q)) = q
       /\ got' = got
    \/ /\ q # <<>>
       /\ qn = Tail(q)
       /\ \E h \in Reqs :
             /\ got[h] = <<>>
             /\ got' = [got EXCEPT ![h] = <<Head(q)>>]

\* C12: each Result Channel hands its results out in the order the Worker
\* produced them, and every result is received by at most one handler: it
\* is never both queued and held, never queued twice, never held by two.
C12_ResultsFifoOnce ==
    /\ [](\A r \in Reqs :
            Cardinality(Holders(r))
              + Cardinality({ i \in DOMAIN floodQ : floodQ[i].req = r })
              + Cardinality({ i \in DOMAIN unreadQ : unreadQ[i].req = r }) <= 1)
    /\ [][\/ ChannelStep(floodQ, floodQ') /\ unreadQ' = unreadQ
          \/ ChannelStep(unreadQ, unreadQ') /\ floodQ' = floodQ]_vars

C12_Witness ==
    \E a, b, c \in Reqs :
        /\ a # b
        /\ kind[a] = "messages" /\ kind[b] = "messages"
        /\ got[a] # <<>> /\ got[b] # <<>>
        /\ got[a][1].req # got[b][1].req
        /\ kind[c] = "flood" /\ got[c] # <<>>

C14_FloodDelaySuspendsOnlyItsHandler ==
    \A h \in Reqs :
        pc[h] = "sleep" =>
            /\ (worker = "running" /\ cmdQ # <<>>) => ENABLED WorkerProcess(Views)
            /\ ~Busy(thr[h])

\* The steps of the /flood handler of h, in order.
FloodStepsInOrder(h) ==
    /\ (pc[h] = "idle" /\ pc'[h] # "idle" /\ kind'[h] = "flood") =>
          /\ floodQ' = floodQ /\ got' = got
          /\ \/ /\ pc'[h] = "sleep"
                /\ cmdQ' = Append(cmdQ, Cmd("InitializeFlood", h, NoMsg))
                /\ enq'[h] = 1
             \/ /\ pc'[h] = "done"
                /\ status'[h] = HttpInternalServerError
                /\ cmdQ' = cmdQ
                /\ enq'[h] = 0
    /\ (pc[h] = "sleep" /\ pc'[h] # "sleep") =>
          /\ floodQ' = floodQ /\ got' = got
          /\ \/ /\ pc'[h] = "recv"
                /\ cmdQ' = Append(cmdQ, Cmd("GetEdgeNodesFromFlood", h, NoMsg))
                /\ enq'[h] = 2
             \/ /\ pc'[h] = "done"
                /\ status'[h] = HttpInternalServerError
                /\ cmdQ' = cmdQ
                /\ enq'[h] = 1
    /\ (pc[h] = "recv" /\ pc'[h] # "recv") =>
          /\ pc'[h] = "done"
          /\ cmdQ' = cmdQ /\ enq' = enq
          /\ \/ floodQ # <<>> /\ floodQ' = Tail(floodQ) /\ Len(got'[h]) = 1
             \/ floodQ' = floodQ /\ got' = got
    /\ (kind[h] = "flood" /\ pc'[h] = pc[h]) => enq'[h] = enq[h] /\ got'[h] = got[h]

\* C15: a /flood handler enqueues initialize-discovery, waits out its delay,
\* enqueues fetch-discovered-nodes, then receives from the discovery Result
\* Channel; a failed enqueue ends it with 500 at once, nothing further
\* enqueued and the Result Channel unread. It enqueues 0, 1 or 2 commands
\* and consumes at most one DiscoveryResult.
C15_FloodStepOrder ==
    /\ [](\A h \in Reqs :
            kind[h] = "flood" =>
               /\ enq[h] \in 0..2
               /\ Len(got[h]) <= 1
               /\ pc[h] = "sleep" => enq[h] = 1 /\ got[h] = <<>>
               /\ pc[h] = "recv" => enq[h] = 2 /\ got[h] = <<>>
               /\ (Done(h) /\ via[h] = "sendfail") =>
                     /\ status[h] = HttpInternalServerError
                     /\ enq[h] \in {0, 1}
                     /\ got[h] = <<>>
               /\ (Done(h) /\ via[h] # "sendfail") => enq[h] = 2)
    /\ [][\A h \in Reqs : FloodStepsInOrder(h)]_vars

C15_Witness ==
    \E f, g, h \in Reqs :
        /\ kind[f] = "flood" /\ Done(f) /\ enq[f] = 2 /\ Len(got[f]) = 1
        /\ kind[g] = "flood" /\ Done(g) /\ enq[g] = 1 /\ via[g] = "sendfail"
        /\ kind[h] = "flood" /\ Done(h) /\ enq[h] = 0 /\ via[h] = "sendfail"

\* C16: Client::run spawns exactly one Worker thread per constructed Worker
\* and before the Front End is started; when construction fails it has
\* spawned no thread and bound no port; when the Front End fails to bind,
\* run returns with the Worker thread spawned and left as it was.
C16_RunSpawnsOneWorker ==
    /\ [](clientHolds =>
            /\ run.threads <= 1
            /\ run.at \in {"called", "constructed", "ctor_failed"} =>
                  run.threads = 0 /\ run.port = 0 /\ worker = "unspawned"
            /\ run.at \in {"spawned", "serving", "bind_failed", "panicked"} =>
                  run.threads = 1 /\ worker # "unspawned"
            /\ run.port # 0 => run.threads = 1 /\ run.at = "serving")
    /\ [][clientHolds =>
            /\ (run'.at \in {"serving", "bind_failed"} /\ run.at # run'.at) =>
                  /\ run.at = "spawned"
                  /\ run'.threads = run.threads
                  /\ worker' = worker
            /\ run.at \in {"ctor_failed", "bind_failed"} => run' = run
            /\ run'.threads # run.threads => run.at = "constructed"]_vars

C16_Witness ==
    /\ clientHolds
    /\ run.at = "bind_failed"
    /\ run.threads = 1
    /\ worker = "running"
    /\ run.port = 0

\* C20: the Front End binds to base + 8000, the sum never overflowing u16:
\* through Client::run the port lies in 8000..=8255, and start_server
\* called directly binds that sum for every base port it accepts.
C20_PortIsBasePlus8000 ==
    /\ run.at # "panicked"
    /\ run.at = "serving" =>
          /\ run.port = run.base + PortOffset
          /\ run.port <= U16Max
          /\ clientHolds => run.port \in PortOffset..(PortOffset + U8Max)

\* The handler of h takes a step.
Acts(h) == pc'[h] # pc[h] \/ elapsed'[h] # elapsed[h]

\* C17: a /register, /send or /clients handler enqueues at most one command,
\* a send-message command whose message has this node as source, returns
\* 200 exactly when the enqueue succeeded and 500 exactly when it failed,
\* and leaves both Result Channels alone; /flood leaves the unread-messages
\* channel alone and /messages the discovery channel.
C17_ForwardFrame ==
    /\ [](\A h \in Reqs :
            kind[h] \in SimpleKinds =>
               /\ Done(h)
               /\ enq[h] \in {0, 1}
               /\ status[h] \in {HttpOk, HttpInternalServerError}
               /\ status[h] = HttpOk <=> enq[h] = 1
               /\ status[h] = HttpInternalServerError <=> enq[h] = 0
               /\ got[h] = <<>>)
    /\ [][\A h \in Reqs :
            /\ (Acts(h) /\ kind'[h] \in SimpleKinds) =>
                  /\ floodQ' = floodQ /\ unreadQ' = unreadQ /\ got' = got
                  /\ \/ cmdQ' = cmdQ
                     \/ \E dst \in NodeIds :
                           cmdQ' = Append(cmdQ,
                                      Cmd("SendMessage", h,
                                          [source |-> NodeId, destination |-> dst,
                                           content |-> Content(kind'[h])]))
            /\ (Acts(h) /\ kind'[h] = "flood") => unreadQ' = unreadQ
            /\ (Acts(h) /\ kind'[h] = "messages") => floodQ' = floodQ]_vars

C17_Witness ==
    \E f, g \in Reqs :
        /\ kind[f] \in SimpleKinds /\ status[f] = HttpOk /\ enq[f] = 1
        /\ kind[g] \in SimpleKinds /\ status[g] = HttpInternalServerError /\ enq[g] = 0
        /\ floodQ # <<>> \/ unreadQ # <<>>

\* The results the Worker produced for the fetch of request r that are still
\* queued on the unread-messages Result Channel.
UnreadQueued(r) == { i \in DOMAIN unreadQ : unreadQ[i].req = r }

\* Every UnreadMessagesResult produced is still queued or is held by exactly
\* one handler.
UnreadConserved ==
    \A r \in Reqs :
        kind[r] = "messages" =>
            proc[r] = Cardinality(UnreadQueued(r)) + Cardinality(Holders(r))

\* C18 as stated: every produced UnreadMessagesResult is queued or was
\* received by exactly one handler, and the queued results are no more than
\* the /messages requests that ended without receiving a result.
C18_QueuedWithinEndedRequests ==
    /\ UnreadConserved
    /\ Len(unreadQ) <=
          Cardinality({ h \in Reqs : kind[h] = "messages" /\ Done(h) /\ got[h] = <<>> })

\* C18, amended: a timeout drops no UnreadMessagesResult: the result stays
\* queued and the next handler to receive takes the oldest one; every
\* produced result is queued or was received by exactly one handler, and the
\* queued results are no more than the /messages requests that enqueued a
\* fetch and have not received a result, ended or still waiting.
C18_QueuedWithinUnansweredRequests ==
    /\ [](/\ UnreadConserved
          /\ Len(unreadQ) <=
                Cardinality({ h \in Reqs : kind[h] = "messages" /\ enq[h] = 1
                                             /\ got[h] = <<>> }))
    /\ [][\A h \in Reqs :
            (pc[h] = "select" /\ Done(h)') =>
               /\ via'[h] = "timeout" => unreadQ' = unreadQ /\ got' = got
               /\ via'[h] = "result" =>
                     /\ unreadQ # <<>>
                     /\ unreadQ' = Tail(unreadQ)
                     /\ got'[h] = <<Head(unreadQ)>>]_vars

C18_Witness ==
    \E h, g \in Reqs :
        /\ h < g
        /\ kind[h] = "messages" /\ Done(h) /\ via[h] = "timeout"
        /\ kind[g] = "messages" /\ Done(g) /\ via[g] = "result"
        /\ got[g][1].req = h
        /\ UnreadQueued(g) # {}

FloodInFlight == \E h \in Reqs : pc[h] \in {"sleep", "recv"}

\* C19: with a live, fairly scheduled Worker every /flood request whose two
\* enqueues succeeded eventually returns 200, however many run at once; and
\* whenever no /flood request is in flight and the Command Channel is
\* drained, the discovery Result Channel is empty.
C19_FloodsAllReturn ==
    /\ \A h \in Reqs :
          (kind[h] = "flood" /\ enq[h] = 2) ~> (Done(h) /\ status[h] = HttpOk)
    /\ []((~FloodInFlight /\ cmdQ = <<>>) => floodQ = <<>>)

C19_Witness ==
    \E h, g \in Reqs :
        /\ h # g
        /\ kind[h] = "flood" /\ Done(h) /\ status[h] = HttpOk
        /\ kind[g] = "flood" /\ Done(g) /\ status[g] = HttpOk
        /\ got[h][1].req = g
        /\ got[g][1].req = h
        /\ ~FloodInFlight /\ cmdQ = <<>> /\ floodQ = <<>>

====
